---- MODULE Spec2Model ----
(***************************************************************************)
(* Model of src/verify.py: one coroutine, main(), that drives a headless   *)
(* browser through Playwright.  Every `await` is a suspension point: the   *)
(* call is issued, the coroutine is suspended (inflight), and the browser *)
(* either answers (a Returns action) or fails (a Raises action). While it *)
(* is suspended the event loop may run the page observers (ConsoleEvent,   *)
(* PageErrorEvent).  Statements between two awaits run atomically.         *)
(***************************************************************************)
EXTENDS Naturals, Sequences, FiniteSets

\* Bounds of the model.
MaxEvents == 2          \* page events (console + pageerror) delivered in one run
TickMs == 30000         \* granularity with which the wait's clock advances

\* timeout=60000 of page.wait_for_selector.
SelectorTimeoutMs == 60000

VARIABLES
    pc,               \* the statement main() is at (or suspended in)
    inflight,         \* the awaited browser operation, "none" when main() runs
    driver,           \* the Playwright driver of `async with async_playwright()`
    browser,          \* the browser process: "none", "open", "closed"
    page,             \* TRUE once browser.new_page() has returned
    consoleHandler,   \* page.on("console", ...) registered
    pageerrorHandler, \* page.on("pageerror", ...) registered
    selectorPresent,  \* the DOM holds an element matching '#chart_div svg'
    elapsed,          \* ms the pending wait_for_selector has waited
    out,              \* lines printed to standard output, in order
    files,            \* screenshot files written
    ops,              \* history: every operation call / return / raise, in order
    exc,              \* the exception propagating out of main(), or "none"
    emitted           \* number of events the page has emitted

vars == <<pc, inflight, driver, browser, page, consoleHandler, pageerrorHandler,
          selectorPresent, elapsed, out, files, ops, exc, emitted>>

----------------------------------------------------------------------------
\* Literals of the program.

SuccessPath == "screenshot.png"
ErrorPath == "screenshot_error.png"
SuccessLine == <<"SUCCESS: Chart SVG found!", "">>
ErrorPrefix == "ERROR: Failed to find chart SVG."
ConsolePrefix == "CONSOLE: "
PageErrorPrefix == "PAGE ERROR: "

\* What the collaborator can deliver.
TimeoutText == "Timeout 60000ms exceeded."
FailureText == "Target closed"
ConsoleTexts == {"log"}
PageErrorTexts == {"ReferenceError"}

ErrorLine(e) == <<ErrorPrefix, e>>

Min(a, b) == IF a <= b THEN a ELSE b

----------------------------------------------------------------------------
\* The history of operations.

Entry(stmt, phase) == [stmt |-> stmt, phase |-> phase]

Called(stmt) == \E i \in 1..Len(ops) : ops[i] = Entry(stmt, "call")
Returned(stmt) == \E i \in 1..Len(ops) : ops[i] = Entry(stmt, "return")
Raised(stmt) == \E i \in 1..Len(ops) : ops[i] = Entry(stmt, "raise")

----------------------------------------------------------------------------
Init ==
    /\ pc = "aenter"
    /\ inflight = "none"
    /\ driver = "none"
    /\ browser = "none"
    /\ page = FALSE
    /\ consoleHandler = FALSE
    /\ pageerrorHandler = FALSE
    /\ selectorPresent = FALSE
    /\ elapsed = 0
    /\ out = <<>>
    /\ files = {}
    /\ ops = <<>>
    /\ exc = "none"
    /\ emitted = 0

\* main() is running (not suspended in an await) at statement stmt.
At(stmt) == pc = stmt /\ inflight = "none"

\* `await <operation>`: the call is issued and main() is suspended in it.
Issue(stmt) ==
    /\ At(stmt)
    /\ inflight' = stmt
    /\ ops' = Append(ops, Entry(stmt, "call"))

\* The awaited operation answers and main() resumes at statement next.
Resume(stmt, next) ==
    /\ inflight = stmt
    /\ inflight' = "none"
    /\ ops' = Append(ops, Entry(stmt, "return"))
    /\ pc' = next

\* The awaited operation fails outside the try block: the exception leaves the
\* body of the `async with`, whose exit still runs.
Propagate(stmt, e) ==
    /\ inflight = stmt
    /\ inflight' = "none"
    /\ ops' = Append(ops, Entry(stmt, "raise"))
    /\ exc' = e
    /\ pc' = "aexit"

\* The awaited operation fails inside the try block: `except Exception as e`
\* prints the ERROR line and goes on to the diagnostic screenshot.
Caught(stmt, e) ==
    /\ inflight = stmt
    /\ inflight' = "none"
    /\ ops' = Append(ops, Entry(stmt, "raise"))
    /\ out' = Append(out, ErrorLine(e))
    /\ pc' = "errshot"

----------------------------------------------------------------------------
\* async with async_playwright() as p:
EnterPlaywright ==
    /\ At("aenter")
    /\ driver' = "running"
    /\ pc' = "launch"
    /\ UNCHANGED <<inflight, browser, page, consoleHandler, pageerrorHandler,
                   selectorPresent, elapsed, out, files, ops, exc, emitted>>

\* browser = await p.chromium.launch()
CallLaunch ==
    /\ Issue("launch")
    /\ UNCHANGED <<pc, driver, browser, page, consoleHandler, pageerrorHandler,
                   selectorPresent, elapsed, out, files, exc, emitted>>

LaunchReturns ==
    /\ Resume("launch", "new_page")
    /\ browser' = "open"
    /\ UNCHANGED <<driver, page, consoleHandler, pageerrorHandler,
                   selectorPresent, elapsed, out, files, exc, emitted>>

LaunchRaises ==
    /\ Propagate("launch", FailureText)
    /\ UNCHANGED <<driver, browser, page, consoleHandler, pageerrorHandler,
                   selectorPresent, elapsed, out, files, emitted>>

\* page = await browser.new_page()
CallNewPage ==
    /\ Issue("new_page")
    /\ UNCHANGED <<pc, driver, browser, page, consoleHandler, pageerrorHandler,
                   selectorPresent, elapsed, out, files, exc, emitted>>

NewPageReturns ==
    /\ Resume("new_page", "on_console")
    /\ page' = TRUE
    /\ UNCHANGED <<driver, browser, consoleHandler, pageerrorHandler,
                   selectorPresent, elapsed, out, files, exc, emitted>>

NewPageRaises ==
    /\ Propagate("new_page", FailureText)
    /\ UNCHANGED <<driver, browser, page, consoleHandler, pageerrorHandler,
                   selectorPresent, elapsed, out, files, emitted>>

\* page.on("console", lambda msg: print(f"CONSOLE: {msg.text}"))
RegisterConsole_Forgotten ==
    /\ At("on_console")
    /\ pc' = "on_pageerror"
    /\ ops' = ops \o <<Entry("on_console", "call"), Entry("on_console", "return")>>
    /\ UNCHANGED <<inflight, driver, browser, page, consoleHandler, pageerrorHandler,
                   selectorPresent, elapsed, out, files, exc, emitted>>

RegisterConsole ==
    /\ At("on_console")
    /\ consoleHandler' = TRUE
    /\ pc' = "on_pageerror"
    /\ ops' = ops \o <<Entry("on_console", "call"), Entry("on_console", "return")>>
    /\ UNCHANGED <<inflight, driver, browser, page, pageerrorHandler,
                   selectorPresent, elapsed, out, files, exc, emitted>>

\* page.on("pageerror", lambda err: print(f"PAGE ERROR: {err}"))
RegisterPageError ==
    /\ At("on_pageerror")
    /\ pageerrorHandler' = TRUE
    /\ pc' = "goto"
    /\ ops' = ops \o <<Entry("on_pageerror", "call"), Entry("on_pageerror", "return")>>
    /\ UNCHANGED <<inflight, driver, browser, page, consoleHandler,
                   selectorPresent, elapsed, out, files, exc, emitted>>

\* await page.goto('file:///app/.../index.html')
CallGoto ==
    /\ Issue("goto")
    /\ UNCHANGED <<pc, driver, browser, page, consoleHandler, pageerrorHandler,
                   selectorPresent, elapsed, out, files, exc, emitted>>

\* (a runner that forgot the readiness wait)
GotoReturns_SkipWait ==
    /\ Resume("goto", "shot")
    /\ out' = Append(out, SuccessLine)
    /\ UNCHANGED <<driver, browser, page, consoleHandler, pageerrorHandler,
                   selectorPresent, elapsed, files, exc, emitted>>

GotoReturns ==
    /\ Resume("goto", "wait")
    /\ UNCHANGED <<driver, browser, page, consoleHandler, pageerrorHandler,
                   selectorPresent, elapsed, out, files, exc, emitted>>

\* (a runner whose navigation sits inside the try block)
GotoRaises_Caught ==
    /\ Caught("goto", FailureText)
    /\ UNCHANGED <<driver, browser, page, consoleHandler, pageerrorHandler,
                   selectorPresent, elapsed, files, exc, emitted>>

GotoRaises ==
    /\ Propagate("goto", FailureText)
    /\ UNCHANGED <<driver, browser, page, consoleHandler, pageerrorHandler,
                   selectorPresent, elapsed, out, files, emitted>>

\* await page.wait_for_selector('#chart_div svg', timeout=60000)
CallWait ==
    /\ Issue("wait")
    /\ elapsed' = 0
    /\ UNCHANGED <<pc, driver, browser, page, consoleHandler, pageerrorHandler,
                   selectorPresent, out, files, exc, emitted>>

\* (timeout=0 switches the timeout off)
TimedOut_Never == FALSE

\* The wait's timer has run for the timeout given to wait_for_selector.
TimedOut == elapsed >= SelectorTimeoutMs

\* Time passes while the wait is pending and the selector does not match.
Tick ==
    /\ inflight = "wait"
    /\ ~selectorPresent
    /\ ~TimedOut
    /\ elapsed < SelectorTimeoutMs
    /\ elapsed' = Min(elapsed + TickMs, SelectorTimeoutMs)
    /\ UNCHANGED <<pc, inflight, driver, browser, page, consoleHandler,
                   pageerrorHandler, selectorPresent, out, files, ops, exc, emitted>>

\* The page's script renders the chart: the selector matches from now on.
PageRenders ==
    /\ Called("goto")
    /\ browser = "open"
    /\ ~selectorPresent
    /\ selectorPresent' = TRUE
    /\ UNCHANGED <<pc, inflight, driver, browser, page, consoleHandler,
                   pageerrorHandler, elapsed, out, files, ops, exc, emitted>>

\* The selector matched in time: print("SUCCESS: Chart SVG found!") follows at once.
WaitReturns ==
    /\ selectorPresent
    /\ ~TimedOut
    /\ Resume("wait", "shot")
    /\ out' = Append(out, SuccessLine)
    /\ UNCHANGED <<driver, browser, page, consoleHandler, pageerrorHandler,
                   selectorPresent, elapsed, files, exc, emitted>>

\* (a runner without the try/except around the wait)
WaitTimesOut_Uncaught ==
    /\ TimedOut
    /\ Propagate("wait", TimeoutText)
    /\ UNCHANGED <<driver, browser, page, consoleHandler, pageerrorHandler,
                   selectorPresent, elapsed, out, files, emitted>>

\* The timeout elapsed: TimeoutError, caught by `except Exception as e`.
WaitTimesOut ==
    /\ TimedOut
    /\ Caught("wait", TimeoutText)
    /\ UNCHANGED <<driver, browser, page, consoleHandler, pageerrorHandler,
                   selectorPresent, elapsed, files, exc, emitted>>

\* The wait fails for another reason (page or browser gone): caught as well.
WaitFails ==
    /\ Caught("wait", FailureText)
    /\ UNCHANGED <<driver, browser, page, consoleHandler, pageerrorHandler,
                   selectorPresent, elapsed, files, exc, emitted>>

\* await page.screenshot(path='screenshot.png')
CallShot ==
    /\ Issue("shot")
    /\ UNCHANGED <<pc, driver, browser, page, consoleHandler, pageerrorHandler,
                   selectorPresent, elapsed, out, files, exc, emitted>>

\* (a runner that saves the success screenshot under the error path)
ShotReturns_WrongPath ==
    /\ Resume("shot", "close")
    /\ files' = files \cup {ErrorPath}
    /\ UNCHANGED <<driver, browser, page, consoleHandler, pageerrorHandler,
                   selectorPresent, elapsed, out, exc, emitted>>

\* (a runner whose diagnostic screenshot sits in a `finally`)
ShotReturns_FallThrough ==
    /\ Resume("shot", "errshot")
    /\ files' = files \cup {SuccessPath}
    /\ UNCHANGED <<driver, browser, page, consoleHandler, pageerrorHandler,
                   selectorPresent, elapsed, out, exc, emitted>>

ShotReturns ==
    /\ Resume("shot", "close")
    /\ files' = files \cup {SuccessPath}
    /\ UNCHANGED <<driver, browser, page, consoleHandler, pageerrorHandler,
                   selectorPresent, elapsed, out, exc, emitted>>

\* (a runner whose success screenshot sits after the try block)
ShotRaises_Uncaught ==
    /\ Propagate("shot", FailureText)
    /\ UNCHANGED <<driver, browser, page, consoleHandler, pageerrorHandler,
                   selectorPresent, elapsed, out, files, emitted>>

\* The success screenshot fails inside the try block: same except clause.
ShotRaises ==
    /\ Caught("shot", FailureText)
    /\ UNCHANGED <<driver, browser, page, consoleHandler, pageerrorHandler,
                   selectorPresent, elapsed, files, exc, emitted>>

\* await page.screenshot(path='screenshot_error.png'), in the except clause
CallErrShot ==
    /\ Issue("errshot")
    /\ UNCHANGED <<pc, driver, browser, page, consoleHandler, pageerrorHandler,
                   selectorPresent, elapsed, out, files, exc, emitted>>

\* (a runner with one screenshot path for both outcomes)
ErrShotReturns_SamePath ==
    /\ Resume("errshot", "close")
    /\ files' = files \cup {SuccessPath}
    /\ UNCHANGED <<driver, browser, page, consoleHandler, pageerrorHandler,
                   selectorPresent, elapsed, out, exc, emitted>>

ErrShotReturns ==
    /\ Resume("errshot", "close")
    /\ files' = files \cup {ErrorPath}
    /\ UNCHANGED <<driver, browser, page, consoleHandler, pageerrorHandler,
                   selectorPresent, elapsed, out, exc, emitted>>

\* Raised inside the except clause: nothing catches it.
ErrShotRaises ==
    /\ Propagate("errshot", FailureText)
    /\ UNCHANGED <<driver, browser, page, consoleHandler, pageerrorHandler,
                   selectorPresent, elapsed, out, files, emitted>>

\* await browser.close()
CallClose ==
    /\ Issue("close")
    /\ UNCHANGED <<pc, driver, browser, page, consoleHandler, pageerrorHandler,
                   selectorPresent, elapsed, out, files, exc, emitted>>

CloseReturns ==
    /\ Resume("close", "aexit")
    /\ browser' = "closed"
    /\ UNCHANGED <<driver, page, consoleHandler, pageerrorHandler,
                   selectorPresent, elapsed, out, files, exc, emitted>>

CloseRaises ==
    /\ Propagate("close", FailureText)
    /\ UNCHANGED <<driver, browser, page, consoleHandler, pageerrorHandler,
                   selectorPresent, elapsed, out, files, emitted>>

\* (a scope whose exit leaves a launched browser running)
ExitPlaywright_NoTeardown ==
    /\ At("aexit")
    /\ driver' = "stopped"
    /\ pc' = "done"
    /\ UNCHANGED <<inflight, browser, page, consoleHandler, pageerrorHandler,
                   selectorPresent, elapsed, out, files, ops, exc, emitted>>

\* Leaving `async with async_playwright()`, normally or with an exception:
\* the driver is stopped, and a browser it launched that is still open goes
\* down with it.  main() then returns (exc = "none") or raises exc.
ExitPlaywright ==
    /\ At("aexit")
    /\ driver' = "stopped"
    /\ browser' = IF browser = "open" THEN "closed" ELSE browser
    /\ pc' = "done"
    /\ UNCHANGED <<inflight, page, consoleHandler, pageerrorHandler,
                   selectorPresent, elapsed, out, files, ops, exc, emitted>>

----------------------------------------------------------------------------
\* The page observers.  The event loop runs them only while main() is
\* suspended; the page has content to run from the navigation on.

Listening == inflight \in {"goto", "wait", "shot", "errshot", "close"}

ConsoleEvent ==
    /\ Listening
    /\ browser = "open"
    /\ emitted < MaxEvents
    /\ emitted' = emitted + 1
    /\ \E msg \in ConsoleTexts :
          out' = IF consoleHandler THEN Append(out, <<ConsolePrefix, msg>>) ELSE out
    /\ UNCHANGED <<pc, inflight, driver, browser, page, consoleHandler,
                   pageerrorHandler, selectorPresent, elapsed, files, ops, exc>>

PageErrorEvent ==
    /\ Listening
    /\ browser = "open"
    /\ emitted < MaxEvents
    /\ emitted' = emitted + 1
    /\ \E err \in PageErrorTexts :
          out' = IF pageerrorHandler THEN Append(out, <<PageErrorPrefix, err>>) ELSE out
    /\ UNCHANGED <<pc, inflight, driver, browser, page, consoleHandler,
                   pageerrorHandler, selectorPresent, elapsed, files, ops, exc>>

----------------------------------------------------------------------------
\* What main() itself does, and what each awaited operation answers.
Steps ==
    \/ EnterPlaywright
    \/ CallLaunch \/ CallNewPage \/ RegisterConsole \/ RegisterPageError
    \/ CallGoto \/ CallWait \/ CallShot \/ CallErrShot \/ CallClose
    \/ ExitPlaywright

Answers ==
    \/ LaunchReturns \/ LaunchRaises
    \/ NewPageReturns \/ NewPageRaises
    \/ GotoReturns \/ GotoRaises
    \/ ShotReturns \/ ShotRaises
    \/ ErrShotReturns \/ ErrShotRaises
    \/ CloseReturns \/ CloseRaises

Next ==
    \/ Steps
    \/ Answers
    \/ WaitReturns \/ WaitTimesOut \/ WaitFails
    \/ Tick
    \/ PageRenders
    \/ ConsoleEvent
    \/ PageErrorEvent

Spec == Init /\ [][Next]_vars

\* Scheduling: main() takes its next step; every operation other than the wait
\* eventually returns or raises; the clock runs; a wait whose selector matched
\* or whose timeout elapsed is answered.  Nothing obliges the page to render,
\* to emit events, or the wait to fail early.
FairSpec ==
    /\ Spec
    /\ WF_vars(Steps)
    /\ WF_vars(Answers)
    /\ WF_vars(Tick)
    /\ WF_vars(WaitReturns \/ WaitTimesOut)

----------------------------------------------------------------------------
\* Observations used by the properties.

Printed(line) == \E i \in 1..Len(out) : out[i] = line
SuccessPrinted == Printed(SuccessLine)
ErrorPrinted == \E i \in 1..Len(out) : out[i][1] = ErrorPrefix

IsStatus(line) == line[1] \in {SuccessLine[1], ErrorPrefix}
IsForwarded(line) == line[1] \in {ConsolePrefix, PageErrorPrefix}
StatusLines(o) == SelectSeq(o, IsStatus)
ForwardedLines(o) == SelectSeq(o, IsForwarded)

Count(stmt, phase) == Cardinality({i \in 1..Len(ops) : ops[i] = Entry(stmt, phase)})
Index(stmt, phase) == CHOOSE i \in 1..Len(ops) : ops[i] = Entry(stmt, phase)

Ended == pc = "done"
EndedNormally == pc = "done" /\ exc = "none"
EndedRaising == pc = "done" /\ exc # "none"

TryRaised == Raised("wait") \/ Raised("shot")

\* The statements called so far, in call order.
IsCall(e) == e.phase = "call"
Calls == [i \in 1..Len(SelectSeq(ops, IsCall)) |-> SelectSeq(ops, IsCall)[i].stmt]
IsPrefix(s, t) == Len(s) <= Len(t) /\ \A i \in 1..Len(s) : s[i] = t[i]

Prologue == <<"launch", "new_page", "on_console", "on_pageerror", "goto", "wait">>
FullRuns == { Prologue \o <<"shot", "close">>,
              Prologue \o <<"errshot", "close">>,
              Prologue \o <<"shot", "errshot", "close">> }

----------------------------------------------------------------------------
C2_SuccessPath ==
    (Returned("goto") /\ Returned("wait") /\ Returned("shot")) =>
        /\ SuccessPrinted
        /\ ~ErrorPrinted
        /\ files = {SuccessPath}
        /\ ~Called("errshot")
        /\ Called("close") => Index("close", "call") > Index("shot", "return")
        /\ Ended => (Called("close") /\ browser = "closed")

C2_Witness ==
    /\ EndedNormally
    /\ Returned("shot")
    /\ Returned("close")
    /\ files = {SuccessPath}
    /\ browser = "closed"

C4_NavigationFailurePropagates ==
    Raised("goto") =>
        /\ exc # "none"
        /\ pc \in {"aexit", "done"}
        /\ ~Called("wait") /\ ~Called("shot") /\ ~Called("errshot")
        /\ files = {}
        /\ StatusLines(out) = <<>>

C4_Witness ==
    /\ EndedRaising
    /\ Raised("goto")
    /\ files = {}

\* C5: screenshot.png is written only when the selector was found,
\* screenshot_error.png only when something raised inside the try block, and a
\* run that returns normally has written exactly one of the two and printed
\* the line that matches it.
C5_FilenameTellsOutcome ==
    /\ SuccessPath \in files => (Returned("wait") /\ ~TryRaised)
    /\ ErrorPath \in files => TryRaised
    /\ EndedNormally =>
        /\ Cardinality(files) = 1
        /\ SuccessPath \in files => (SuccessPrinted /\ ~ErrorPrinted)
        /\ ErrorPath \in files => ErrorPrinted

C5_Witness ==
    /\ EndedNormally
    /\ Raised("shot")
    /\ files = {ErrorPath}
    /\ ErrorPrinted

\* C6: the operations are strictly ordered and never overlap: each call is
\* answered before the next is issued, the calls follow the order launch, new
\* page, the two registrations, navigation, wait, screenshot(s), close, no
\* screenshot is called before the wait has returned or raised, nothing is
\* called after close, and a run that returns normally made the whole sequence.
C6_StrictlyOrdered ==
    /\ \A i \in 1..Len(ops) :
          IF i % 2 = 1
          THEN ops[i].phase = "call"
          ELSE ops[i].phase \in {"return", "raise"} /\ ops[i].stmt = ops[i - 1].stmt
    /\ inflight = (IF Len(ops) % 2 = 1 THEN ops[Len(ops)].stmt ELSE "none")
    /\ \E run \in FullRuns : IsPrefix(Calls, run)
    /\ \A i \in 1..Len(ops) :
          (ops[i].phase = "call" /\ ops[i].stmt \in {"shot", "errshot"}) =>
              \E j \in 1..(i - 1) :
                  ops[j].stmt = "wait" /\ ops[j].phase \in {"return", "raise"}
    /\ \A i \in 1..Len(ops) :
          ops[i].stmt = "close" => \A j \in (i + 1)..Len(ops) : ops[j].stmt = "close"
    /\ EndedNormally => Calls \in FullRuns

C6_Witness ==
    /\ EndedNormally
    /\ Calls = Prologue \o <<"shot", "errshot", "close">>

\* What the run's branch, files and status lines are when only the answers of
\* the operations are known.
ExpectedStatus ==
    (IF Returned("wait") THEN <<SuccessLine[1]>> ELSE <<>>)
        \o (IF TryRaised THEN <<ErrorPrefix>> ELSE <<>>)
ExpectedFiles ==
    (IF Returned("shot") THEN {SuccessPath} ELSE {})
        \cup (IF Returned("errshot") THEN {ErrorPath} ELSE {})
Control == <<pc, inflight, driver, browser, page, consoleHandler, pageerrorHandler,
             selectorPresent, elapsed, files, ops, exc>>

\* C7: delivering a console or page-error event changes nothing but the
\* output, to which it adds exactly one 'CONSOLE: ' or 'PAGE ERROR: ' line
\* (every event emitted from the navigation on is forwarded); no other step
\* touches the forwarded lines; and the status lines and the files are
\* determined by the operations' answers alone, whatever events were delivered.
C7_ObserversDoNotSteer ==
    [][ /\ (emitted' # emitted) =>
              /\ Control' = Control
              /\ StatusLines(out') = StatusLines(out)
              /\ Len(out') = Len(out) + 1
              /\ SubSeq(out', 1, Len(out)) = out
              /\ IsForwarded(out'[Len(out')])
        /\ (emitted' = emitted) => ForwardedLines(out') = ForwardedLines(out)
        /\ Len(ForwardedLines(out')) = emitted'
        /\ [i \in 1..Len(StatusLines(out')) |-> StatusLines(out')[i][1]] = ExpectedStatus'
        /\ files' = ExpectedFiles'
      ]_vars

C7_Witness ==
    /\ EndedNormally
    /\ emitted = 2
    /\ Printed(<<ConsolePrefix, "log">>)
    /\ Printed(<<PageErrorPrefix, "ReferenceError">>)
    /\ files = {SuccessPath}
    /\ out[Len(out)] # SuccessLine

\* C8: the readiness wait cannot block a run forever: under FairSpec (every
\* other operation is answered, the clock runs) every run ends.
C8_RunEnds == <>Ended

\* A run that ended because the timeout elapsed with the selector never matched.
C8_Witness ==
    /\ Ended
    /\ ~selectorPresent
    /\ elapsed = SelectorTimeoutMs
    /\ Printed(ErrorLine(TimeoutText))

\* C9: a success screenshot that raises lands in the same except clause: the
\* SUCCESS line is already printed, the ERROR line follows it and the error
\* screenshot is attempted; the ERROR line is printed if and only if some
\* operation inside the try block raised.
C9_ErrorLineIffTryRaised ==
    /\ ErrorPrinted <=> TryRaised
    /\ Cardinality({i \in 1..Len(out) : out[i][1] = ErrorPrefix}) <= 1
    /\ Raised("shot") =>
        /\ Returned("wait")
        /\ StatusLines(out) = <<SuccessLine, ErrorLine(FailureText)>>
        /\ pc = "errshot" \/ Called("errshot")
        /\ SuccessPath \notin files

C9_Witness ==
    /\ Ended
    /\ Raised("shot")
    /\ SuccessPrinted
    /\ ErrorPrinted
    /\ Called("errshot")

\* C10: a run writes at most one screenshot file, never both, and the wait
\* and each screenshot are attempted at most once.
C10_AtMostOneScreenshot ==
    /\ Cardinality(files) <= 1
    /\ Count("wait", "call") <= 1
    /\ Count("shot", "call") <= 1
    /\ Count("errshot", "call") <= 1

C10_Witness ==
    /\ Ended
    /\ Raised("shot")
    /\ Returned("errshot")
    /\ files = {ErrorPath}

====
